---------------------------- MODULE Spec2Model ----------------------------
(***************************************************************************)
(* Key pairs and address derivation of pysui (sui/sui_crypto.py and        *)
(* abstracts/client_keypair.py).                                           *)
(*                                                                         *)
(* Bytes are sequences of integers 0..255.  A base64 text is a sequence of *)
(* character codes: 0..63 is the position of the character in the base64   *)
(* alphabet, PAD is '=' and JUNK is a character outside the alphabet.      *)
(* Hex text is a sequence of one-character strings.                        *)
(***************************************************************************)
EXTENDS Integers, Sequences, FiniteSets, TLC

(* ------------------------------------------------------------------ *)
(* SignatureScheme and the length constants                            *)
(* ------------------------------------------------------------------ *)
ED25519 == 0
SECP256K1 == 1

\* sui.sui_constants, imported by sui_crypto.py.  The key pair lengths are
\* the ones its messages and slices spell out ("Expect bytes len of 64",
\* indata[0:32]; "Expect bytes len of 65", indata[0:33]; "a 88 byte keypair
\* string").  SUI_ADDRESS_STRING_LEN is the length of an address text
\* without its "0x" prefix.
SUI_KEYPAIR_LEN == 88
ED25519_PUBLICKEY_BYTES_LEN == 32
ED25519_PRIVATEKEY_BYTES_LEN == 32
ED25519_KEYPAIR_BYTES_LEN == 64
SECP256K1_PUBLICKEY_BYTES_LEN == 33
SECP256K1_PRIVATEKEY_BYTES_LEN == 32
SECP256K1_KEYPAIR_BYTES_LEN == 65
SUI_ADDRESS_STRING_LEN == 40

PAD == 64
JUNK == 65

(* ------------------------------------------------------------------ *)
(* Python slices                                                       *)
(* ------------------------------------------------------------------ *)
Min(a, b) == IF a < b THEN a ELSE b

\* s[a:b]
Slice(s, a, b) == SubSeq(s, a + 1, Min(b, Len(s)))

\* s[a:]
SliceFrom(s, a) == SubSeq(s, a + 1, Len(s))

(* ------------------------------------------------------------------ *)
(* base64.b64encode                                                    *)
(* ------------------------------------------------------------------ *)
\* byte i of s, zero past the end (the encoder's zero fill of the last group)
ByteOr0(s, i) == IF i <= Len(s) THEN s[i] ELSE 0

\* the k-th (0..3) character of the g-th (0..) group of three bytes
EncodeChar(s, g, k) ==
    LET b0 == ByteOr0(s, 3 * g + 1)
        b1 == ByteOr0(s, 3 * g + 2)
        b2 == ByteOr0(s, 3 * g + 3)
        have == Len(s) - 3 * g
    IN  CASE k = 0 -> b0 \div 4
          [] k = 1 -> (b0 % 4) * 16 + (b1 \div 16)
          [] k = 2 -> IF have >= 2 THEN (b1 % 16) * 4 + (b2 \div 64) ELSE PAD
          [] k = 3 -> IF have >= 3 THEN b2 % 64 ELSE PAD

b64encode(s) ==
    LET groups == (Len(s) + 2) \div 3
    IN  [i \in 1..(4 * groups) |-> EncodeChar(s, (i - 1) \div 4, (i - 1) % 4)]

(* ------------------------------------------------------------------ *)
(* base64.b64decode (validate=False): binascii.a2b_base64, non-strict  *)
(* ------------------------------------------------------------------ *)
\* The decoder reads the text left to right.  Characters outside the
\* alphabet are skipped.  quad_pos is the number of data characters read so
\* far modulo 4; a '=' met with quad_pos >= 2 that completes the group ends
\* the reading, whatever follows.
IsData(ch) == ch < 64

DataBefore(txt, i) == Cardinality({j \in 1..i : IsData(txt[j])})

\* the '=' characters between the last data character before i and i itself
PadsUpTo(txt, i) ==
    Cardinality({j \in 1..i : /\ txt[j] = PAD
                              /\ \A k \in j..i : ~IsData(txt[k])})

EndsReading(txt, i) ==
    /\ txt[i] = PAD
    /\ DataBefore(txt, i) % 4 >= 2
    /\ (DataBefore(txt, i) % 4) + PadsUpTo(txt, i) >= 4

\* the data characters the decoder reads
DataRead(txt) ==
    LET stops == {i \in 1..Len(txt) : EndsReading(txt, i)}
        last == IF stops = {} THEN Len(txt)
                ELSE CHOOSE i \in stops : \A j \in stops : i <= j
    IN  [padded |-> stops # {}, data |-> SelectSeq(SubSeq(txt, 1, last), IsData)]

\* the k-th byte packed from the 6-bit values ds
Packed(ds, k) ==
    LET g == 4 * ((k - 1) \div 3)
        r == (k - 1) % 3
    IN  CASE r = 0 -> ds[g + 1] * 4 + (ds[g + 2] \div 16)
          [] r = 1 -> (ds[g + 2] % 16) * 16 + (ds[g + 3] \div 4)
          [] r = 2 -> (ds[g + 3] % 4) * 64 + ds[g + 4]

a2b_base64(txt) ==
    LET rd == DataRead(txt)
        n == Len(rd.data)
    IN  IF ~rd.padded /\ n % 4 # 0
        THEN [ok |-> FALSE, bytes |-> <<>>]
        ELSE [ok |-> TRUE, bytes |-> [k \in 1..((n * 6) \div 8) |-> Packed(rd.data, k)]]

b64decode(txt) == a2b_base64(txt)


(* ------------------------------------------------------------------ *)
(* Outcomes of a call: a value or the exception raised, with the       *)
(* trace of the library steps the call went through                    *)
(* ------------------------------------------------------------------ *)
NoKey == [scheme |-> -1, key_bytes |-> <<>>]
NoKeyPair == [scheme |-> -1, public_key |-> NoKey, private_key |-> NoKey]

Returned == [ok |-> TRUE, err |-> "", msg |-> "", key |-> NoKey, kp |-> NoKeyPair,
             address |-> <<>>, trace |-> <<>>, hashed |-> <<>>]

Raise(e, m, tr) == [Returned EXCEPT !.ok = FALSE, !.err = e, !.msg = m, !.trace = tr]

\* the outcome r of a callee, seen by a caller that had already done steps tr
After(tr, r) == [r EXCEPT !.trace = tr \o r.trace]

(* ------------------------------------------------------------------ *)
(* The wrapped curve libraries (trusted, external)                     *)
(* ------------------------------------------------------------------ *)
\* nacl VerifyKey / SigningKey: any 32 bytes are taken
NaclAccepts(indata) == Len(indata) = 32

\* secp256k1.PublicKey(raw=True): a compressed point starts with 02 or 03
Secp256k1PublicAccepts(indata) ==
    Len(indata) = 33 /\ indata[1] \in {2, 3}

\* secp256k1.PrivateKey(raw=True): a scalar k with 0 < k < n
Secp256k1PrivateAccepts(indata) ==
    /\ Len(indata) = 32
    /\ \E i \in 1..Len(indata) : indata[i] # 0
    /\ \E i \in 1..Len(indata) : indata[i] # 255

(* ------------------------------------------------------------------ *)
(* Key primitives                                                      *)
(* ------------------------------------------------------------------ *)
Key(scheme, key_bytes) == [scheme |-> scheme, key_bytes |-> key_bytes]

KeyMade(k) == [Returned EXCEPT !.key = k]
KeyFailed(e, m) == Raise(e, m, <<>>)

SuiPublicKeyED25519(indata) ==
    IF Len(indata) # ED25519_PUBLICKEY_BYTES_LEN
    THEN KeyFailed("SuiInvalidKeyPair", "Public Key expects bytes")
    ELSE IF ~NaclAccepts(indata)
    THEN KeyFailed("ValueError", "VerifyKey")
    ELSE KeyMade(Key(ED25519, indata))

SuiPrivateKeyED25519(indata) ==
    IF Len(indata) # ED25519_PRIVATEKEY_BYTES_LEN
    THEN KeyFailed("SuiInvalidKeyPair", "Private Key expects bytes")
    ELSE IF ~NaclAccepts(indata)
    THEN KeyFailed("ValueError", "SigningKey")
    ELSE KeyMade(Key(ED25519, indata))

\* SuiPublicKeySECP256K1 keeping the first 33 bytes of a longer input
SuiPublicKeySECP256K1_truncating(indata) ==
    IF Len(indata) < SECP256K1_PUBLICKEY_BYTES_LEN
    THEN KeyFailed("SuiInvalidKeyPair", "Public Key expects bytes")
    ELSE IF ~Secp256k1PublicAccepts(Slice(indata, 0, 33))
    THEN KeyFailed("Exception", "secp256k1.PublicKey")
    ELSE KeyMade(Key(SECP256K1, Slice(indata, 0, 33)))

SuiPublicKeySECP256K1(indata) ==
    IF Len(indata) # SECP256K1_PUBLICKEY_BYTES_LEN
    THEN KeyFailed("SuiInvalidKeyPair", "Public Key expects bytes")
    ELSE IF ~Secp256k1PublicAccepts(indata)
    THEN KeyFailed("Exception", "secp256k1.PublicKey")
    ELSE KeyMade(Key(SECP256K1, indata))

SuiPrivateKeySECP256K1(indata) ==
    IF Len(indata) # SECP256K1_PRIVATEKEY_BYTES_LEN
    THEN KeyFailed("SuiInvalidKeyPair", "Private Key expects bytes")
    ELSE IF ~Secp256k1PrivateAccepts(indata)
    THEN KeyFailed("Exception", "secp256k1.PrivateKey")
    ELSE KeyMade(Key(SECP256K1, indata))

(* ------------------------------------------------------------------ *)
(* Key pairs                                                           *)
(* ------------------------------------------------------------------ *)
KeyPair(scheme, pub, priv) ==
    [scheme |-> scheme, public_key |-> pub, private_key |-> priv]

\* SuiKeyPairED25519.__init__: the private key is built first
SuiKeyPairED25519(pub_key_bytes, priv_key_bytes) ==
    LET priv == SuiPrivateKeyED25519(priv_key_bytes)
        pub == SuiPublicKeyED25519(pub_key_bytes)
    IN  IF ~priv.ok THEN Raise(priv.err, priv.msg, <<>>)
        ELSE IF ~pub.ok THEN Raise(pub.err, pub.msg, <<>>)
        ELSE [Returned EXCEPT !.kp = KeyPair(ED25519, pub.key, priv.key)]

\* SuiKeyPairSECP256K1.__init__: the public key is built first
SuiKeyPairSECP256K1(pub_key_bytes, priv_key_bytes) ==
    LET pub == SuiPublicKeySECP256K1(pub_key_bytes)
        priv == SuiPrivateKeySECP256K1(priv_key_bytes)
    IN  IF ~pub.ok THEN Raise(pub.err, pub.msg, <<>>)
        ELSE IF ~priv.ok THEN Raise(priv.err, priv.msg, <<>>)
        ELSE [Returned EXCEPT !.kp = KeyPair(SECP256K1, pub.key, priv.key)]

\* to_bytes with the two keys in the other order
to_bytes_private_first(kp) ==
    <<kp.scheme>> \o kp.private_key.key_bytes \o kp.public_key.key_bytes

\* scheme.to_bytes(1, "little") + public_key.key_bytes + private_key.key_bytes
to_bytes(kp) ==
    <<kp.scheme>> \o kp.public_key.key_bytes \o kp.private_key.key_bytes

\* KeyPair.to_b64
to_b64(kp) == b64encode(to_bytes(kp))

SuiKeyPairED25519_from_bytes(indata) ==
    IF Len(indata) # ED25519_KEYPAIR_BYTES_LEN
    THEN Raise("SuiInvalidKeyPair", "Expect bytes len of 64",
               <<"SuiKeyPairED25519.from_bytes">>)
    ELSE After(<<"SuiKeyPairED25519.from_bytes">>,
               SuiKeyPairED25519(Slice(indata, 0, 32), SliceFrom(indata, 32)))

\* SuiKeyPairSECP256K1.from_bytes cutting where the Ed25519 variant cuts
SuiKeyPairSECP256K1_from_bytes_split32(indata) ==
    IF Len(indata) # SECP256K1_KEYPAIR_BYTES_LEN
    THEN Raise("SuiInvalidKeyPair", "Expect bytes len of 65",
               <<"SuiKeyPairSECP256K1.from_bytes">>)
    ELSE After(<<"SuiKeyPairSECP256K1.from_bytes">>,
               SuiKeyPairSECP256K1(Slice(indata, 0, 32), SliceFrom(indata, 32)))

SuiKeyPairSECP256K1_from_bytes(indata) ==
    IF Len(indata) # SECP256K1_KEYPAIR_BYTES_LEN
    THEN Raise("SuiInvalidKeyPair", "Expect bytes len of 65",
               <<"SuiKeyPairSECP256K1.from_bytes">>)
    ELSE After(<<"SuiKeyPairSECP256K1.from_bytes">>,
               SuiKeyPairSECP256K1(Slice(indata, 0, 33), SliceFrom(indata, 33)))

\* base_decode[0] can be read: the text decoded, and not to nothing
HasFirstByte(base_decode) == base_decode.ok /\ Len(base_decode.bytes) > 0

\* what b64decode, or base_decode[0] on no bytes, raises
DecodeFailure(base_decode) ==
    IF ~base_decode.ok
    THEN Raise("binascii.Error", "Incorrect padding", <<"b64decode">>)
    ELSE Raise("IndexError", "index out of range", <<"b64decode">>)

\* SuiKeyPairED25519.from_b64 checking the length after the decoding
SuiKeyPairED25519_from_b64_decode_first(indata) ==
    LET base_decode == b64decode(indata) IN
    IF ~HasFirstByte(base_decode) THEN DecodeFailure(base_decode)
    ELSE After(<<"b64decode">>,
               IF Len(indata) # SUI_KEYPAIR_LEN
               THEN Raise("SuiInvalidKeyPair", "Expect str len of SUI_KEYPAIR_LEN", <<>>)
               ELSE IF base_decode.bytes[1] = ED25519
               THEN SuiKeyPairED25519_from_bytes(SliceFrom(base_decode.bytes, 1))
               ELSE Raise("SuiInvalidKeyPair", "Scheme not ED25519", <<>>))

SuiKeyPairED25519_from_b64(indata) ==
    IF Len(indata) # SUI_KEYPAIR_LEN
    THEN Raise("SuiInvalidKeyPair", "Expect str len of SUI_KEYPAIR_LEN", <<>>)
    ELSE LET base_decode == b64decode(indata) IN
         IF ~HasFirstByte(base_decode) THEN DecodeFailure(base_decode)
         ELSE After(<<"b64decode">>,
                    IF base_decode.bytes[1] = ED25519
                    THEN SuiKeyPairED25519_from_bytes(SliceFrom(base_decode.bytes, 1))
                    ELSE Raise("SuiInvalidKeyPair", "Scheme not ED25519", <<>>))

\* line 192 hands the remainder to SuiKeyPairED25519.from_bytes
SuiKeyPairSECP256K1_from_b64(indata) ==
    IF Len(indata) # SUI_KEYPAIR_LEN
    THEN Raise("SuiInvalidKeyPair", "Expect str len of SUI_KEYPAIR_LEN", <<>>)
    ELSE LET base_decode == b64decode(indata) IN
         IF ~HasFirstByte(base_decode) THEN DecodeFailure(base_decode)
         ELSE After(<<"b64decode">>,
                    IF base_decode.bytes[1] = SECP256K1
                    THEN SuiKeyPairED25519_from_bytes(SliceFrom(base_decode.bytes, 1))
                    ELSE Raise("SuiInvalidKeyPair", "Scheme not SECP256K1", <<>>))

\* keypair_from_keystring taking every tag but 0 for Secp256k1
keypair_from_keystring_default_secp(keystring) ==
    IF Len(keystring) # SUI_KEYPAIR_LEN
    THEN Raise("SuiInvalidKeystringLength", "len(keystring)", <<>>)
    ELSE LET addy_bytes == b64decode(keystring) IN
         IF ~HasFirstByte(addy_bytes) THEN DecodeFailure(addy_bytes)
         ELSE After(<<"b64decode">>,
                    CASE addy_bytes.bytes[1] = ED25519 ->
                           SuiKeyPairED25519_from_bytes(SliceFrom(addy_bytes.bytes, 1))
                      [] OTHER ->
                           SuiKeyPairSECP256K1_from_bytes(SliceFrom(addy_bytes.bytes, 1)))

keypair_from_keystring(keystring) ==
    IF Len(keystring) # SUI_KEYPAIR_LEN
    THEN Raise("SuiInvalidKeystringLength", "len(keystring)", <<>>)
    ELSE LET addy_bytes == b64decode(keystring) IN
         IF ~HasFirstByte(addy_bytes) THEN DecodeFailure(addy_bytes)
         ELSE After(<<"b64decode">>,
                    CASE addy_bytes.bytes[1] = ED25519 ->
                           SuiKeyPairED25519_from_bytes(SliceFrom(addy_bytes.bytes, 1))
                      [] addy_bytes.bytes[1] = SECP256K1 ->
                           SuiKeyPairSECP256K1_from_bytes(SliceFrom(addy_bytes.bytes, 1))
                      [] OTHER -> Raise("NotImplementedError", "", <<>>))

(* ------------------------------------------------------------------ *)
(* hashlib.sha3_256 and binascii.hexlify                               *)
(* ------------------------------------------------------------------ *)
\* The hash is an external primitive.  It stands here as a 32-byte digest
\* that depends on the length of the data and on every byte and its place.
RECURSIVE Absorb(_, _, _)
Absorb(data, j, weighted) ==
    IF j > Len(data) THEN 0
    ELSE ((IF weighted THEN j * data[j] ELSE data[j]) + Absorb(data, j + 1, weighted)) % 256

sha3_256(data) ==
    LET plain == Absorb(data, 1, FALSE)
        placed == Absorb(data, 1, TRUE)
    IN  [lane \in 1..32 |-> (placed + lane * plain + 31 * Len(data) + 17 * lane) % 256]

HexDigit == <<"0", "1", "2", "3", "4", "5", "6", "7",
              "8", "9", "a", "b", "c", "d", "e", "f">>

hexlify(data) ==
    [i \in 1..(2 * Len(data)) |->
        LET b == data[(i + 1) \div 2]
        IN  IF i % 2 = 1 THEN HexDigit[(b \div 16) + 1] ELSE HexDigit[(b % 16) + 1]]

(* ------------------------------------------------------------------ *)
(* SuiAddress                                                          *)
(* ------------------------------------------------------------------ *)
\* SuiAddress.__init__: the value kept in self.address
SuiAddress(identifier) ==
    IF Len(identifier) # SUI_ADDRESS_STRING_LEN
    THEN identifier
    ELSE <<"0", "x">> \o identifier

\* AddressHex cut two characters later
AddressHex_42(digest) == Slice(hexlify(sha3_256(digest)), 0, 42)

\* the hex text SuiAddress.from_bytes hands to the constructor
AddressHex(digest) == Slice(hexlify(sha3_256(digest)), 0, 40)

\* DigestWindow without the branch on the first byte
DigestWindow_always34(in_bytes) == Slice(in_bytes, 0, 34)

\* the slice of in_bytes that is fed to the hash
DigestWindow(in_bytes) ==
    IF in_bytes[1] = 0 THEN Slice(in_bytes, 0, 33) ELSE Slice(in_bytes, 0, 34)

SuiAddress_from_bytes(in_bytes) ==
    IF Len(in_bytes) = 0
    THEN Raise("IndexError", "index out of range", <<>>)
    ELSE LET digest == DigestWindow(in_bytes)
         IN  [Returned EXCEPT !.address = SuiAddress(AddressHex(digest)),
                              !.trace = <<"sha3_256">>,
                              !.hashed = digest]

\* address_from_keystring without the key pair check (as from_keypair_string)
address_from_keystring_unvalidated(indata) ==
    LET decoded == b64decode(indata) IN
    IF ~decoded.ok
    THEN Raise("binascii.Error", "Incorrect padding", <<"b64decode">>)
    ELSE After(<<"b64decode">>, SuiAddress_from_bytes(decoded.bytes))

\* address_from_keystring hashing the decoded bytes without their tag
address_from_keystring_untagged(indata) ==
    LET _kp == keypair_from_keystring(indata) IN
    IF ~_kp.ok THEN _kp
    ELSE LET decoded == b64decode(indata) IN
         After(_kp.trace \o <<"b64decode">>,
               SuiAddress_from_bytes(SliceFrom(decoded.bytes, 1)))

address_from_keystring(indata) ==
    LET _kp == keypair_from_keystring(indata) IN
    IF ~_kp.ok THEN _kp
    ELSE LET decoded == b64decode(indata) IN
         After(_kp.trace \o <<"b64decode">>, SuiAddress_from_bytes(decoded.bytes))

(* ------------------------------------------------------------------ *)
(* Generation                                                          *)
(* ------------------------------------------------------------------ *)
\* unique() of the variant chosen by keytype; verifier and signer are the
\* bytes the curve library generated
create_new_keypair(keytype, verifier, signer) ==
    CASE keytype = ED25519 -> SuiKeyPairED25519(verifier, signer)
      [] keytype = SECP256K1 -> SuiKeyPairSECP256K1(verifier, signer)
      [] OTHER -> Raise("NotImplementedError", "", <<>>)

create_new_address(keytype, verifier, signer) ==
    LET new_kp == create_new_keypair(keytype, verifier, signer) IN
    IF ~new_kp.ok THEN new_kp
    ELSE [SuiAddress_from_bytes(to_bytes(new_kp.kp)) EXCEPT !.kp = new_kp.kp]

(* ------------------------------------------------------------------ *)
(* Inputs                                                              *)
(* ------------------------------------------------------------------ *)
MaxCreated == 2

\* len bytes: the first one given, the others told apart by their place
Mk(first, salt, len) ==
    [i \in 1..len |-> IF i = 1 THEN first ELSE (salt + i) % 256]

Zeros(len) == [i \in 1..len |-> 0]

\* <<verifier, signer>> as the curve library of a scheme generates them
Generated(keytype) ==
    CASE keytype = ED25519 ->
           {Mk(0, 10, 32), Mk(7, 10, 32)} \X {Mk(5, 100, 32), Mk(6, 100, 32)}
      [] keytype = SECP256K1 ->
           {Mk(2, 10, 33)} \X {Mk(5, 100, 32), Mk(6, 100, 32)}
      [] OTHER -> {<<(<<>>), (<<>>)>>}

KeyTypes == {ED25519, SECP256K1, 2}

\* byte sequences handed to the key constructors
KeyInputs ==
    {Mk(f, 10, n) : f \in {0, 2}, n \in {31, 32, 33, 34}}
        \cup {Zeros(32), <<>>}

\* byte sequences handed to from_bytes of a variant
PairBuffers ==
    { Mk(7, 10, 32) \o Mk(5, 100, 32),      \* 64: two Ed25519 keys
      Mk(2, 10, 33) \o Mk(5, 100, 32),      \* 65: two Secp256k1 keys
      Mk(0, 10, 33) \o Mk(5, 100, 32),      \* 65: no compressed point
      Mk(2, 10, 33) \o Zeros(32),           \* 65: no scalar
      Mk(2, 10, 31) \o Mk(5, 100, 32),      \* 63
      Mk(2, 10, 33) \o Mk(5, 100, 33),      \* 66
      <<>> }

\* byte sequences that start with a tag byte
TaggedBuffers == {<<t>> \o b : t \in {0, 1, 2}, b \in PairBuffers}

\* byte sequences handed to SuiAddress.from_bytes
AddressBuffers ==
    TaggedBuffers \cup PairBuffers
        \cup {Mk(0, 10, 34), Mk(3, 10, 34), Mk(3, 10, 20)}

\* texts handed to the decoders
KeyStrings ==
    {b64encode(b) : b \in TaggedBuffers}
        \cup {<<>>,
              [i \in 1..88 |-> JUNK],
              [i \in 1..88 |-> IF i = 88 THEN JUNK ELSE 0],
              [i \in 1..88 |-> IF i <= 4 THEN JUNK ELSE 1]}

(* ------------------------------------------------------------------ *)
(* State                                                               *)
(* ------------------------------------------------------------------ *)
VARIABLES
    op,        \* the function called last
    arg,       \* its argument (bytes or text)
    src,       \* the key pair arg was serialized from, NoKeyPair if none
    via,       \* how arg was made from src
    res,       \* the outcome of the call
    created    \* the (key pair, address) pairs create_new_address returned

vars == <<op, arg, src, via, res, created>>

Init ==
    /\ op = "" /\ arg = <<>> /\ src = NoKeyPair /\ via = ""
    /\ res = Returned
    /\ created = {}

\* the key pairs that exist
Existing ==
    {c.kp : c \in created} \cup (IF res.ok /\ res.kp # NoKeyPair THEN {res.kp} ELSE {})

Called(name, a, s, v, r) ==
    /\ op' = name /\ arg' = a /\ src' = s /\ via' = v /\ res' = r
    /\ UNCHANGED created

(* ------------------------------------------------------------------ *)
(* Operations                                                          *)
(* ------------------------------------------------------------------ *)
NewPublicKeyED25519 ==
    \E indata \in KeyInputs :
        Called("SuiPublicKeyED25519", indata, NoKeyPair, "", SuiPublicKeyED25519(indata))

NewPrivateKeyED25519 ==
    \E indata \in KeyInputs :
        Called("SuiPrivateKeyED25519", indata, NoKeyPair, "", SuiPrivateKeyED25519(indata))

NewPublicKeySECP256K1 ==
    \E indata \in KeyInputs :
        Called("SuiPublicKeySECP256K1", indata, NoKeyPair, "", SuiPublicKeySECP256K1(indata))

NewPrivateKeySECP256K1 ==
    \E indata \in KeyInputs :
        Called("SuiPrivateKeySECP256K1", indata, NoKeyPair, "", SuiPrivateKeySECP256K1(indata))

ED25519FromBytes ==
    \/ \E indata \in PairBuffers :
          Called("SuiKeyPairED25519.from_bytes", indata, NoKeyPair, "",
                 SuiKeyPairED25519_from_bytes(indata))
    \/ \E kp \in Existing :
          /\ kp.scheme = ED25519
          /\ \/ Called("SuiKeyPairED25519.from_bytes", to_bytes(kp), kp, "to_bytes",
                       SuiKeyPairED25519_from_bytes(to_bytes(kp)))
             \/ Called("SuiKeyPairED25519.from_bytes", SliceFrom(to_bytes(kp), 1), kp,
                       "to_bytes[1:]",
                       SuiKeyPairED25519_from_bytes(SliceFrom(to_bytes(kp), 1)))

SECP256K1FromBytes ==
    \/ \E indata \in PairBuffers :
          Called("SuiKeyPairSECP256K1.from_bytes", indata, NoKeyPair, "",
                 SuiKeyPairSECP256K1_from_bytes(indata))
    \/ \E kp \in Existing :
          /\ kp.scheme = SECP256K1
          /\ \/ Called("SuiKeyPairSECP256K1.from_bytes", to_bytes(kp), kp, "to_bytes",
                       SuiKeyPairSECP256K1_from_bytes(to_bytes(kp)))
             \/ Called("SuiKeyPairSECP256K1.from_bytes", SliceFrom(to_bytes(kp), 1), kp,
                       "to_bytes[1:]",
                       SuiKeyPairSECP256K1_from_bytes(SliceFrom(to_bytes(kp), 1)))

ED25519FromB64 ==
    \/ \E indata \in KeyStrings :
          Called("SuiKeyPairED25519.from_b64", indata, NoKeyPair, "",
                 SuiKeyPairED25519_from_b64(indata))
    \/ \E kp \in Existing :
          /\ kp.scheme = ED25519
          /\ Called("SuiKeyPairED25519.from_b64", to_b64(kp), kp, "to_b64",
                    SuiKeyPairED25519_from_b64(to_b64(kp)))

SECP256K1FromB64 ==
    \/ \E indata \in KeyStrings :
          Called("SuiKeyPairSECP256K1.from_b64", indata, NoKeyPair, "",
                 SuiKeyPairSECP256K1_from_b64(indata))
    \/ \E kp \in Existing :
          /\ kp.scheme = SECP256K1
          /\ Called("SuiKeyPairSECP256K1.from_b64", to_b64(kp), kp, "to_b64",
                    SuiKeyPairSECP256K1_from_b64(to_b64(kp)))

KeypairFromKeystring ==
    \/ \E keystring \in KeyStrings :
          Called("keypair_from_keystring", keystring, NoKeyPair, "",
                 keypair_from_keystring(keystring))
    \/ \E kp \in Existing :
          Called("keypair_from_keystring", to_b64(kp), kp, "to_b64",
                 keypair_from_keystring(to_b64(kp)))

AddressFromKeystring ==
    \/ \E indata \in KeyStrings :
          Called("address_from_keystring", indata, NoKeyPair, "",
                 address_from_keystring(indata))
    \/ \E kp \in Existing :
          Called("address_from_keystring", to_b64(kp), kp, "to_b64",
                 address_from_keystring(to_b64(kp)))

AddressFromBytes ==
    \/ \E in_bytes \in AddressBuffers :
          Called("SuiAddress.from_bytes", in_bytes, NoKeyPair, "",
                 SuiAddress_from_bytes(in_bytes))
    \/ \E kp \in Existing :
          Called("SuiAddress.from_bytes", to_bytes(kp), kp, "to_bytes",
                 SuiAddress_from_bytes(to_bytes(kp)))

CreateNewKeypair ==
    \E keytype \in KeyTypes : \E g \in Generated(keytype) :
        Called("create_new_keypair", <<keytype>>, NoKeyPair, "",
               create_new_keypair(keytype, g[1], g[2]))

CreateNewAddress ==
    \E keytype \in KeyTypes : \E g \in Generated(keytype) :
        LET r == create_new_address(keytype, g[1], g[2])
            made == IF r.ok THEN {[kp |-> r.kp, address |-> r.address]} ELSE {}
        IN  /\ Cardinality(created \cup made) <= MaxCreated
            /\ op' = "create_new_address" /\ arg' = <<keytype>>
            /\ src' = NoKeyPair /\ via' = "" /\ res' = r
            /\ created' = created \cup made

Next ==
    \/ NewPublicKeyED25519
    \/ NewPrivateKeyED25519
    \/ NewPublicKeySECP256K1
    \/ NewPrivateKeySECP256K1
    \/ ED25519FromBytes
    \/ SECP256K1FromBytes
    \/ ED25519FromB64
    \/ SECP256K1FromB64
    \/ KeypairFromKeystring
    \/ AddressFromKeystring
    \/ AddressFromBytes
    \/ CreateNewKeypair
    \/ CreateNewAddress

Spec == Init /\ [][Next]_vars

(* ------------------------------------------------------------------ *)
(* Properties                                                          *)
(* ------------------------------------------------------------------ *)
FromBytesOps == {"SuiKeyPairED25519.from_bytes", "SuiKeyPairSECP256K1.from_bytes"}
FromB64Ops == {"SuiKeyPairED25519.from_b64", "SuiKeyPairSECP256K1.from_b64"}
DecodeOps == FromB64Ops \cup {"keypair_from_keystring"}

\* the call returned a key pair equal to the one its argument was made from
GaveBackSrc ==
    /\ res.ok
    /\ res.kp.scheme = src.scheme
    /\ res.kp.public_key.key_bytes = src.public_key.key_bytes
    /\ res.kp.private_key.key_bytes = src.private_key.key_bytes

\* a wrong-length failure of a decoder
WrongLength ==
    /\ ~res.ok
    /\ \/ res.err = "SuiInvalidKeystringLength"
       \/ res.err = "SuiInvalidKeyPair" /\ res.msg = "Expect str len of SUI_KEYPAIR_LEN"

\* the first decoded byte of the text the call was given, -1 if there is none
DecodedTag ==
    LET d == b64decode(arg)
    IN  IF d.ok /\ Len(d.bytes) > 0 THEN d.bytes[1] ELSE -1

\* C1 as stated: for every scheme and every key pair kp, the variant's
\* from_bytes applied to kp.to_bytes() succeeds and gives back kp's scheme,
\* public key bytes and private key bytes.
C1_FromBytesOfToBytes ==
    (op \in FromBytesOps /\ via = "to_bytes") => GaveBackSrc

\* C1 as amended: the variant's from_bytes applied to kp.to_bytes() without
\* its leading tag byte succeeds and gives back kp's scheme, public key bytes
\* and private key bytes; applied to kp.to_bytes() itself it fails with
\* SuiInvalidKeyPair, the text being one byte longer than from_bytes takes.
C1_FromBytesOfUntagged ==
    /\ (op \in FromBytesOps /\ via = "to_bytes[1:]") => GaveBackSrc
    /\ (op \in FromBytesOps /\ via = "to_bytes") =>
          /\ ~res.ok /\ res.err = "SuiInvalidKeyPair"
          /\ res.msg \in {"Expect bytes len of 64", "Expect bytes len of 65"}

C1_Witness ==
    /\ op = "SuiKeyPairSECP256K1.from_bytes" /\ via = "to_bytes[1:]"
    /\ src.scheme = SECP256K1 /\ res.ok
    /\ Len(arg) = 65

\* C2: for each variant V and every key pair kp of V, V.from_b64(kp.to_b64())
\* succeeds and gives back kp's scheme, public key bytes and private key bytes.
C2_FromB64OfToB64 ==
    (op \in FromB64Ops /\ via = "to_b64") => GaveBackSrc

\* C3: whenever keypair_from_keystring or a variant's from_b64 returns a key
\* pair, its scheme is the first decoded byte of the text: tag 0 gives an
\* Ed25519 key pair and tag 1 a Secp256k1 key pair.
C3_TagDispatch ==
    (op \in DecodeOps /\ res.ok) =>
        /\ DecodedTag = 0 => res.kp.scheme = ED25519
        /\ DecodedTag = 1 => res.kp.scheme = SECP256K1

\* C4: keypair_from_keystring and address_from_keystring, given a text of
\* the right length whose first decoded byte is neither 0 nor 1, return
\* nothing and fail with the unsupported-scheme error (NotImplementedError),
\* which is neither the length error nor the wrong-scheme error.
C4_UnknownTag ==
    (/\ op \in {"keypair_from_keystring", "address_from_keystring"}
     /\ Len(arg) = SUI_KEYPAIR_LEN
     /\ DecodedTag \notin {-1, ED25519, SECP256K1}) =>
        /\ ~res.ok
        /\ res.err = "NotImplementedError"
        /\ res.err \notin {"SuiInvalidKeystringLength", "SuiInvalidKeyPair"}
        /\ res.kp = NoKeyPair
        /\ res.address = <<>>
        /\ res.hashed = <<>>

C4_Witness ==
    /\ op = "address_from_keystring"
    /\ Len(arg) = SUI_KEYPAIR_LEN
    /\ DecodedTag = 2
    /\ res.err = "NotImplementedError"

\* C5: given a text whose length is not SUI_KEYPAIR_LEN, each variant's
\* from_b64 and keypair_from_keystring fail with a wrong-length error, and
\* base64 decoding is never reached.
C5_LengthBeforeDecode ==
    (op \in DecodeOps /\ Len(arg) # SUI_KEYPAIR_LEN) =>
        /\ WrongLength
        /\ \A i \in 1..Len(res.trace) : res.trace[i] # "b64decode"
        /\ res.kp = NoKeyPair

C5_Witness ==
    /\ op = "SuiKeyPairED25519.from_b64"
    /\ Len(arg) = 92
    /\ WrongLength
    /\ res.trace = <<>>

IsHex(text) == \A i \in 1..Len(text) : \E d \in 1..16 : text[i] = HexDigit[d]

\* C6: for an input of at least 34 bytes, SuiAddress.from_bytes feeds the
\* hash the first 33 bytes when the first byte is 0 and the first 34 bytes
\* otherwise, and nothing but those bytes decides the address: it is the
\* address of the bytes hashed, and it is the address create_new_address
\* gave to any key pair whose serialization starts with the same bytes.
C6_LeadingByteBranch ==
    (op = "SuiAddress.from_bytes" /\ Len(arg) >= 34) =>
        /\ res.ok
        /\ arg[1] = 0 => res.hashed = SubSeq(arg, 1, 33)
        /\ arg[1] # 0 => res.hashed = SubSeq(arg, 1, 34)
        /\ res.address = SuiAddress(Slice(hexlify(sha3_256(res.hashed)), 0, 40))
        /\ \A c \in created :
              SubSeq(to_bytes(c.kp), 1, Len(res.hashed)) = res.hashed
                  => c.address = res.address

C6_Witness ==
    /\ op = "SuiAddress.from_bytes"
    /\ Len(arg) = 66
    /\ arg[1] = 0
    /\ Len(res.hashed) = 33
    /\ \E c \in created :
          /\ to_bytes(c.kp) # arg
          /\ SubSeq(to_bytes(c.kp), 1, 33) = res.hashed

\* C7 as stated: for an input of at least 34 bytes the address that
\* SuiAddress.from_bytes leaves in the SuiAddress is exactly 40 hex
\* characters.
C7_StoredAddressIs40Hex ==
    (op = "SuiAddress.from_bytes" /\ Len(arg) >= 34) =>
        /\ Len(res.address) = 40
        /\ IsHex(res.address)

\* C7 as amended: for an input of at least 34 bytes the hex text that
\* SuiAddress.from_bytes computes is exactly 40 hex characters, and the
\* constructor keeps it behind the prefix "0x": the address in the
\* SuiAddress is 42 characters, "0x" and then the 40 hex characters.
C7_StoredAddressIs0xAnd40Hex ==
    (op = "SuiAddress.from_bytes" /\ Len(arg) >= 34) =>
        /\ Len(res.address) = 42
        /\ SubSeq(res.address, 1, 2) = <<"0", "x">>
        /\ Len(SliceFrom(res.address, 2)) = 40
        /\ IsHex(SliceFrom(res.address, 2))

C7_Witness ==
    /\ op = "SuiAddress.from_bytes"
    /\ Len(arg) = 34
    /\ res.ok
    /\ Len(res.address) = 42

KeyOps == {"SuiPublicKeyED25519", "SuiPrivateKeyED25519",
           "SuiPublicKeySECP256K1", "SuiPrivateKeySECP256K1"}

\* the length a scheme asks of a key
MandatedLen(name) ==
    CASE name = "SuiPublicKeyED25519" -> 32
      [] name = "SuiPrivateKeyED25519" -> 32
      [] name = "SuiPublicKeySECP256K1" -> 33
      [] name = "SuiPrivateKeySECP256K1" -> 32

RightLengths(kp) ==
    /\ kp.scheme \in {ED25519, SECP256K1}
    /\ kp.public_key.scheme = kp.scheme /\ kp.private_key.scheme = kp.scheme
    /\ Len(kp.public_key.key_bytes) = (IF kp.scheme = ED25519 THEN 32 ELSE 33)
    /\ Len(kp.private_key.key_bytes) = 32

\* C8: a public or private key of either scheme built from bytes of another
\* length than the scheme mandates (Ed25519 32 and 32, Secp256k1 33 and 32)
\* fails with a length error and yields no key; a key that is built holds
\* its input unchanged, and every key pair that exists holds keys of the
\* mandated lengths.
C8_KeyLength ==
    /\ (op \in KeyOps /\ Len(arg) # MandatedLen(op)) =>
          /\ ~res.ok
          /\ res.err = "SuiInvalidKeyPair"
          /\ res.msg \in {"Public Key expects bytes", "Private Key expects bytes"}
          /\ res.key = NoKey
    /\ (op \in KeyOps /\ res.ok) =>
          /\ res.key.key_bytes = arg
          /\ Len(res.key.key_bytes) = MandatedLen(op)
    /\ \A kp \in Existing : RightLengths(kp)

C8_Witness ==
    /\ op = "SuiPublicKeySECP256K1"
    /\ Len(arg) = 34
    /\ arg[1] = 2
    /\ ~res.ok
    /\ created # {}

\* C9: address_from_keystring returns an address only if
\* keypair_from_keystring succeeds on the same text; when it fails, the
\* caller gets that same error and the hash is never run.  When it
\* succeeds, the hash runs after the key pair was built.
C9_ValidateBeforeHash ==
    op = "address_from_keystring" =>
        LET parsed == keypair_from_keystring(arg) IN
        /\ res.ok => parsed.ok
        /\ ~parsed.ok =>
              /\ ~res.ok
              /\ res.err = parsed.err /\ res.msg = parsed.msg
              /\ res.address = <<>>
              /\ res.hashed = <<>>
              /\ \A i \in 1..Len(res.trace) : res.trace[i] # "sha3_256"
        /\ \A i \in 1..Len(res.trace) :
              res.trace[i] = "sha3_256" =>
                  \E j \in 1..(i - 1) :
                      res.trace[j] \in {"SuiKeyPairED25519.from_bytes",
                                        "SuiKeyPairSECP256K1.from_bytes"}

C9_Witness ==
    /\ op = "address_from_keystring"
    /\ Len(arg) = SUI_KEYPAIR_LEN
    /\ DecodedTag = SECP256K1
    /\ ~res.ok
    /\ res.err = "Exception"

\* C10: the address create_new_address returns depends on the scheme tag
\* and the public key bytes only.  The bytes hashed are tag || public key
\* bytes (33 for Ed25519, 34 for Secp256k1), and two key pairs of one scheme
\* with equal public key bytes and different private key bytes have the
\* same address.
C10_AddressOfPublicKeyOnly ==
    /\ (op = "create_new_address" /\ res.ok) =>
          /\ res.hashed = <<res.kp.scheme>> \o res.kp.public_key.key_bytes
          /\ Len(res.hashed) = (IF res.kp.scheme = ED25519 THEN 33 ELSE 34)
          /\ [kp |-> res.kp, address |-> res.address] \in created
    /\ \A c1, c2 \in created :
          (/\ c1.kp.scheme = c2.kp.scheme
           /\ c1.kp.public_key.key_bytes = c2.kp.public_key.key_bytes)
              => c1.address = c2.address

C10_Witness ==
    /\ op = "create_new_address" /\ res.ok
    /\ \E c1, c2 \in created :
          /\ c1.kp.scheme = SECP256K1 /\ c2.kp.scheme = SECP256K1
          /\ c1.kp.public_key.key_bytes = c2.kp.public_key.key_bytes
          /\ c1.kp.private_key.key_bytes # c2.kp.private_key.key_bytes
          /\ c1.address = c2.address

\* C11: for every key pair kp of either scheme, kp.to_b64() has the length
\* the key-string precheck asks for, keypair_from_keystring(kp.to_b64())
\* succeeds and gives back kp's scheme and key bytes, and
\* address_from_keystring(kp.to_b64()) is the address
\* SuiAddress.from_bytes(kp.to_bytes()), the one create_new_address returned
\* with kp.
C11_KeystringAgreesWithDirect ==
    /\ (op = "keypair_from_keystring" /\ via = "to_b64") =>
          /\ Len(arg) = SUI_KEYPAIR_LEN
          /\ GaveBackSrc
    /\ (op = "address_from_keystring" /\ via = "to_b64") =>
          /\ Len(arg) = SUI_KEYPAIR_LEN
          /\ res.ok
          /\ res.address = SuiAddress_from_bytes(to_bytes(src)).address
          /\ res.hashed = SuiAddress_from_bytes(to_bytes(src)).hashed
          /\ \A c \in created : c.kp = src => c.address = res.address

C11_Witness ==
    /\ op = "address_from_keystring" /\ via = "to_b64"
    /\ src.scheme = SECP256K1
    /\ res.ok
    /\ Len(res.address) = 42
    /\ \E c \in created : c.kp = src /\ c.address = res.address

=============================================================================
